---- MODULE Spec2Model ----
(***************************************************************************)
(* A model of the Pratt (top-down operator precedence) parsing engine of   *)
(* tdop.py: the tokenizer and its one-token-lookahead TokenStream, the     *)
(* RuleMap registration API, the eat primitive and the parse loop.         *)
(*                                                                         *)
(* Encodings.  A Python str that the code scans character by character     *)
(* (the source text, a regex group) is a sequence of code points; a str    *)
(* that is only compared or formatted (a token type, a message) is a TLA+  *)
(* string.  None is the empty tuple.  A Python tuple is *)
(* a TLA+ tuple and a dict is a function on its key set.                   *)
(***************************************************************************)
EXTENDS Integers, Sequences, FiniteSets, TLC

VARIABLES
    token_stream,     \* the TokenStream object: s, current, and its generator
    ret,              \* outcome of the last call made on the stream
    advances,         \* number of next(token_stream) calls that returned
    rule_map,         \* the RuleMap object: .null and .left
    null_registered,  \* last (f, bp) given to register_null, per token type
    left_registered,  \* last (f, bp, flag) given to register_left, per type
    stack,            \* the Python call stack of parse and its handlers
    result,           \* outcome of the top-level parse call
    top_rbp           \* the rbp argument of the top-level parse call

vars == <<token_stream, ret, advances, rule_map, null_registered,
          left_registered, stack, result, top_rbp>>

(***************************************************************************)
(* Bounds of the model.                                                    *)
(***************************************************************************)
MaxTextLen == 3
MaxBP == 1
MaxTokens == 5

None == <<>>

(***************************************************************************)
(* Token and its repr.                                                     *)
(***************************************************************************)
Token(type, val, loc) == [type |-> type, val |-> val, loc |-> loc]

EOF_TOKEN == Token("eof", "eof", None)

ERROR_TOKEN == Token("<ERROR>", "<ERROR>", None)

\* "%s" of a token value: str(int) for a number, the text itself otherwise.
ValStr(t) == IF t.type = "number" THEN ToString(t.val) ELSE t.val

TokenRepr(t) == "<Token " \o t.type \o " " \o ValStr(t) \o ">"

(***************************************************************************)
(* Characters.  A character is its code point (Python's ord).  A str the   *)
(* code only compares or formats is written out as a TLA+ string by Str,   *)
(* the way Python's ascii() writes it: a printable ASCII character as      *)
(* itself, any other as \xhh, \uhhhh or \Uhhhhhhhh.                        *)
(***************************************************************************)
\* chr(32) .. chr(126); the grave accent, which a TLA+ string cannot hold, is
\* written as its escape.
AsciiChars ==
    <<
      " ", "!", "\"", "#", "$", "%", "&", "'", "(", ")", "*", "+",
      ",", "-", ".", "/", "0", "1", "2", "3", "4", "5", "6", "7",
      "8", "9", ":", ";", "<", "=", ">", "?", "@", "A", "B", "C",
      "D", "E", "F", "G", "H", "I", "J", "K", "L", "M", "N", "O",
      "P", "Q", "R", "S", "T", "U", "V", "W", "X", "Y", "Z", "[",
      "\\", "]", "^", "_", "\\x60", "a", "b", "c", "d", "e", "f", "g",
      "h", "i", "j", "k", "l", "m", "n", "o", "p", "q", "r", "s",
      "t", "u", "v", "w", "x", "y", "z", "{", "|", "}", "~"
    >>

HexDigits ==
    <<"0", "1", "2", "3", "4", "5", "6", "7", "8", "9", "a", "b", "c", "d", "e", "f">>

RECURSIVE Hex(_, _)
\* n in hexadecimal, width digits.
Hex(n, width) ==
    IF width = 0 THEN "" ELSE Hex(n \div 16, width - 1) \o HexDigits[(n % 16) + 1]

\* The one-character str chr(c), written as a TLA+ string.
Chr(c) ==
    IF c \in 32..126 THEN AsciiChars[c - 31]
    ELSE IF c < 256 THEN "\\x" \o Hex(c, 2)
    ELSE IF c < 65536 THEN "\\u" \o Hex(c, 4)
    ELSE "\\U" \o Hex(c, 8)

(***************************************************************************)
(* TOKEN_RE and re.findall.  TOKEN_RE is a str pattern, so \s, \d and \w   *)
(* are the Unicode classes of the re module: the tables below list, as     *)
(* ranges of code points, the characters each matches (Unicode 13.0, the     *)
(* database of Python 3.9 and 3.10).  The two long tables are given in     *)
(* pieces: the piece that holds c if any range does.                       *)
(***************************************************************************)
\* \s: the characters str.isspace() accepts.
SpaceRanges ==
    {<<9, 13>>, <<28, 32>>, <<133, 133>>, <<160, 160>>, <<5760, 5760>>,
      <<8192, 8202>>, <<8232, 8233>>, <<8239, 8239>>, <<8287, 8287>>,
      <<12288, 12288>>}

\* \d: the decimal digits (category Nd), each range a whole number of runs
\* 0..9.
DigitRanges(c) ==
    IF c < 3872 THEN
        {<<48, 57>>, <<1632, 1641>>, <<1776, 1785>>, <<1984, 1993>>,
          <<2406, 2415>>, <<2534, 2543>>, <<2662, 2671>>, <<2790, 2799>>,
          <<2918, 2927>>, <<3046, 3055>>, <<3174, 3183>>, <<3302, 3311>>,
          <<3430, 3439>>, <<3558, 3567>>, <<3664, 3673>>, <<3792, 3801>>}
    ELSE IF c < 43472 THEN
        {<<3872, 3881>>, <<4160, 4169>>, <<4240, 4249>>, <<6112, 6121>>,
          <<6160, 6169>>, <<6470, 6479>>, <<6608, 6617>>, <<6784, 6793>>,
          <<6800, 6809>>, <<6992, 7001>>, <<7088, 7097>>, <<7232, 7241>>,
          <<7248, 7257>>, <<42528, 42537>>, <<43216, 43225>>,
          <<43264, 43273>>}
    ELSE IF c < 71472 THEN
        {<<43472, 43481>>, <<43504, 43513>>, <<43600, 43609>>,
          <<44016, 44025>>, <<65296, 65305>>, <<66720, 66729>>,
          <<68912, 68921>>, <<69734, 69743>>, <<69872, 69881>>,
          <<69942, 69951>>, <<70096, 70105>>, <<70384, 70393>>,
          <<70736, 70745>>, <<70864, 70873>>, <<71248, 71257>>,
          <<71360, 71369>>}
    ELSE
        {<<71472, 71481>>, <<71904, 71913>>, <<72016, 72025>>,
          <<72784, 72793>>, <<73040, 73049>>, <<73120, 73129>>,
          <<92768, 92777>>, <<93008, 93017>>, <<120782, 120831>>,
          <<123200, 123209>>, <<123632, 123641>>, <<125264, 125273>>,
          <<130032, 130041>>}

\* \w: the alphanumeric characters (str.isalnum()) and the underscore.
WordRanges(c) ==
    IF c < 880 THEN
        {<<48, 57>>, <<65, 90>>, <<95, 95>>, <<97, 122>>, <<170, 170>>,
          <<178, 179>>, <<181, 181>>, <<185, 186>>, <<188, 190>>,
          <<192, 214>>, <<216, 246>>, <<248, 705>>, <<710, 721>>,
          <<736, 740>>, <<748, 748>>, <<750, 750>>}
    ELSE IF c < 1568 THEN
        {<<880, 884>>, <<886, 887>>, <<890, 893>>, <<895, 895>>,
          <<902, 902>>, <<904, 906>>, <<908, 908>>, <<910, 929>>,
          <<931, 1013>>, <<1015, 1153>>, <<1162, 1327>>, <<1329, 1366>>,
          <<1369, 1369>>, <<1376, 1416>>, <<1488, 1514>>, <<1519, 1522>>}
    ELSE IF c < 2074 THEN
        {<<1568, 1610>>, <<1632, 1641>>, <<1646, 1647>>, <<1649, 1747>>,
          <<1749, 1749>>, <<1765, 1766>>, <<1774, 1788>>, <<1791, 1791>>,
          <<1808, 1808>>, <<1810, 1839>>, <<1869, 1957>>, <<1969, 1969>>,
          <<1984, 2026>>, <<2036, 2037>>, <<2042, 2042>>, <<2048, 2069>>}
    ELSE IF c < 2474 THEN
        {<<2074, 2074>>, <<2084, 2084>>, <<2088, 2088>>, <<2112, 2136>>,
          <<2144, 2154>>, <<2208, 2228>>, <<2230, 2247>>, <<2308, 2361>>,
          <<2365, 2365>>, <<2384, 2384>>, <<2392, 2401>>, <<2406, 2415>>,
          <<2417, 2432>>, <<2437, 2444>>, <<2447, 2448>>, <<2451, 2472>>}
    ELSE IF c < 2616 THEN
        {<<2474, 2480>>, <<2482, 2482>>, <<2486, 2489>>, <<2493, 2493>>,
          <<2510, 2510>>, <<2524, 2525>>, <<2527, 2529>>, <<2534, 2545>>,
          <<2548, 2553>>, <<2556, 2556>>, <<2565, 2570>>, <<2575, 2576>>,
          <<2579, 2600>>, <<2602, 2608>>, <<2610, 2611>>, <<2613, 2614>>}
    ELSE IF c < 2821 THEN
        {<<2616, 2617>>, <<2649, 2652>>, <<2654, 2654>>, <<2662, 2671>>,
          <<2674, 2676>>, <<2693, 2701>>, <<2703, 2705>>, <<2707, 2728>>,
          <<2730, 2736>>, <<2738, 2739>>, <<2741, 2745>>, <<2749, 2749>>,
          <<2768, 2768>>, <<2784, 2785>>, <<2790, 2799>>, <<2809, 2809>>}
    ELSE IF c < 2972 THEN
        {<<2821, 2828>>, <<2831, 2832>>, <<2835, 2856>>, <<2858, 2864>>,
          <<2866, 2867>>, <<2869, 2873>>, <<2877, 2877>>, <<2908, 2909>>,
          <<2911, 2913>>, <<2918, 2927>>, <<2929, 2935>>, <<2947, 2947>>,
          <<2949, 2954>>, <<2958, 2960>>, <<2962, 2965>>, <<2969, 2970>>}
    ELSE IF c < 3200 THEN
        {<<2972, 2972>>, <<2974, 2975>>, <<2979, 2980>>, <<2984, 2986>>,
          <<2990, 3001>>, <<3024, 3024>>, <<3046, 3058>>, <<3077, 3084>>,
          <<3086, 3088>>, <<3090, 3112>>, <<3114, 3129>>, <<3133, 3133>>,
          <<3160, 3162>>, <<3168, 3169>>, <<3174, 3183>>, <<3192, 3198>>}
    ELSE IF c < 3412 THEN
        {<<3200, 3200>>, <<3205, 3212>>, <<3214, 3216>>, <<3218, 3240>>,
          <<3242, 3251>>, <<3253, 3257>>, <<3261, 3261>>, <<3294, 3294>>,
          <<3296, 3297>>, <<3302, 3311>>, <<3313, 3314>>, <<3332, 3340>>,
          <<3342, 3344>>, <<3346, 3386>>, <<3389, 3389>>, <<3406, 3406>>}
    ELSE IF c < 3718 THEN
        {<<3412, 3414>>, <<3416, 3425>>, <<3430, 3448>>, <<3450, 3455>>,
          <<3461, 3478>>, <<3482, 3505>>, <<3507, 3515>>, <<3517, 3517>>,
          <<3520, 3526>>, <<3558, 3567>>, <<3585, 3632>>, <<3634, 3635>>,
          <<3648, 3654>>, <<3664, 3673>>, <<3713, 3714>>, <<3716, 3716>>}
    ELSE IF c < 4159 THEN
        {<<3718, 3722>>, <<3724, 3747>>, <<3749, 3749>>, <<3751, 3760>>,
          <<3762, 3763>>, <<3773, 3773>>, <<3776, 3780>>, <<3782, 3782>>,
          <<3792, 3801>>, <<3804, 3807>>, <<3840, 3840>>, <<3872, 3891>>,
          <<3904, 3911>>, <<3913, 3948>>, <<3976, 3980>>, <<4096, 4138>>}
    ELSE IF c < 4696 THEN
        {<<4159, 4169>>, <<4176, 4181>>, <<4186, 4189>>, <<4193, 4193>>,
          <<4197, 4198>>, <<4206, 4208>>, <<4213, 4225>>, <<4238, 4238>>,
          <<4240, 4249>>, <<4256, 4293>>, <<4295, 4295>>, <<4301, 4301>>,
          <<4304, 4346>>, <<4348, 4680>>, <<4682, 4685>>, <<4688, 4694>>}
    ELSE IF c < 5112 THEN
        {<<4696, 4696>>, <<4698, 4701>>, <<4704, 4744>>, <<4746, 4749>>,
          <<4752, 4784>>, <<4786, 4789>>, <<4792, 4798>>, <<4800, 4800>>,
          <<4802, 4805>>, <<4808, 4822>>, <<4824, 4880>>, <<4882, 4885>>,
          <<4888, 4954>>, <<4969, 4988>>, <<4992, 5007>>, <<5024, 5109>>}
    ELSE IF c < 6128 THEN
        {<<5112, 5117>>, <<5121, 5740>>, <<5743, 5759>>, <<5761, 5786>>,
          <<5792, 5866>>, <<5870, 5880>>, <<5888, 5900>>, <<5902, 5905>>,
          <<5920, 5937>>, <<5952, 5969>>, <<5984, 5996>>, <<5998, 6000>>,
          <<6016, 6067>>, <<6103, 6103>>, <<6108, 6108>>, <<6112, 6121>>}
    ELSE IF c < 6800 THEN
        {<<6128, 6137>>, <<6160, 6169>>, <<6176, 6264>>, <<6272, 6276>>,
          <<6279, 6312>>, <<6314, 6314>>, <<6320, 6389>>, <<6400, 6430>>,
          <<6470, 6509>>, <<6512, 6516>>, <<6528, 6571>>, <<6576, 6601>>,
          <<6608, 6618>>, <<6656, 6678>>, <<6688, 6740>>, <<6784, 6793>>}
    ELSE IF c < 7418 THEN
        {<<6800, 6809>>, <<6823, 6823>>, <<6917, 6963>>, <<6981, 6987>>,
          <<6992, 7001>>, <<7043, 7072>>, <<7086, 7141>>, <<7168, 7203>>,
          <<7232, 7241>>, <<7245, 7293>>, <<7296, 7304>>, <<7312, 7354>>,
          <<7357, 7359>>, <<7401, 7404>>, <<7406, 7411>>, <<7413, 7414>>}
    ELSE IF c < 8144 THEN
        {<<7418, 7418>>, <<7424, 7615>>, <<7680, 7957>>, <<7960, 7965>>,
          <<7968, 8005>>, <<8008, 8013>>, <<8016, 8023>>, <<8025, 8025>>,
          <<8027, 8027>>, <<8029, 8029>>, <<8031, 8061>>, <<8064, 8116>>,
          <<8118, 8124>>, <<8126, 8126>>, <<8130, 8132>>, <<8134, 8140>>}
    ELSE IF c < 8488 THEN
        {<<8144, 8147>>, <<8150, 8155>>, <<8160, 8172>>, <<8178, 8180>>,
          <<8182, 8188>>, <<8304, 8305>>, <<8308, 8313>>, <<8319, 8329>>,
          <<8336, 8348>>, <<8450, 8450>>, <<8455, 8455>>, <<8458, 8467>>,
          <<8469, 8469>>, <<8473, 8477>>, <<8484, 8484>>, <<8486, 8486>>}
    ELSE IF c < 11520 THEN
        {<<8488, 8488>>, <<8490, 8493>>, <<8495, 8505>>, <<8508, 8511>>,
          <<8517, 8521>>, <<8526, 8526>>, <<8528, 8585>>, <<9312, 9371>>,
          <<9450, 9471>>, <<10102, 10131>>, <<11264, 11310>>,
          <<11312, 11358>>, <<11360, 11492>>, <<11499, 11502>>,
          <<11506, 11507>>, <<11517, 11517>>}
    ELSE IF c < 12321 THEN
        {<<11520, 11557>>, <<11559, 11559>>, <<11565, 11565>>,
          <<11568, 11623>>, <<11631, 11631>>, <<11648, 11670>>,
          <<11680, 11686>>, <<11688, 11694>>, <<11696, 11702>>,
          <<11704, 11710>>, <<11712, 11718>>, <<11720, 11726>>,
          <<11728, 11734>>, <<11736, 11742>>, <<11823, 11823>>,
          <<12293, 12295>>}
    ELSE IF c < 12977 THEN
        {<<12321, 12329>>, <<12337, 12341>>, <<12344, 12348>>,
          <<12353, 12438>>, <<12445, 12447>>, <<12449, 12538>>,
          <<12540, 12543>>, <<12549, 12591>>, <<12593, 12686>>,
          <<12690, 12693>>, <<12704, 12735>>, <<12784, 12799>>,
          <<12832, 12841>>, <<12872, 12879>>, <<12881, 12895>>,
          <<12928, 12937>>}
    ELSE IF c < 43015 THEN
        {<<12977, 12991>>, <<13312, 19903>>, <<19968, 40956>>,
          <<40960, 42124>>, <<42192, 42237>>, <<42240, 42508>>,
          <<42512, 42539>>, <<42560, 42606>>, <<42623, 42653>>,
          <<42656, 42735>>, <<42775, 42783>>, <<42786, 42888>>,
          <<42891, 42943>>, <<42946, 42954>>, <<42997, 43009>>,
          <<43011, 43013>>}
    ELSE IF c < 43520 THEN
        {<<43015, 43018>>, <<43020, 43042>>, <<43056, 43061>>,
          <<43072, 43123>>, <<43138, 43187>>, <<43216, 43225>>,
          <<43250, 43255>>, <<43259, 43259>>, <<43261, 43262>>,
          <<43264, 43301>>, <<43312, 43334>>, <<43360, 43388>>,
          <<43396, 43442>>, <<43471, 43481>>, <<43488, 43492>>,
          <<43494, 43518>>}
    ELSE IF c < 43785 THEN
        {<<43520, 43560>>, <<43584, 43586>>, <<43588, 43595>>,
          <<43600, 43609>>, <<43616, 43638>>, <<43642, 43642>>,
          <<43646, 43695>>, <<43697, 43697>>, <<43701, 43702>>,
          <<43705, 43709>>, <<43712, 43712>>, <<43714, 43714>>,
          <<43739, 43741>>, <<43744, 43754>>, <<43762, 43764>>,
          <<43777, 43782>>}
    ELSE IF c < 64287 THEN
        {<<43785, 43790>>, <<43793, 43798>>, <<43808, 43814>>,
          <<43816, 43822>>, <<43824, 43866>>, <<43868, 43881>>,
          <<43888, 44002>>, <<44016, 44025>>, <<44032, 55203>>,
          <<55216, 55238>>, <<55243, 55291>>, <<63744, 64109>>,
          <<64112, 64217>>, <<64256, 64262>>, <<64275, 64279>>,
          <<64285, 64285>>}
    ELSE IF c < 65382 THEN
        {<<64287, 64296>>, <<64298, 64310>>, <<64312, 64316>>,
          <<64318, 64318>>, <<64320, 64321>>, <<64323, 64324>>,
          <<64326, 64433>>, <<64467, 64829>>, <<64848, 64911>>,
          <<64914, 64967>>, <<65008, 65019>>, <<65136, 65140>>,
          <<65142, 65276>>, <<65296, 65305>>, <<65313, 65338>>,
          <<65345, 65370>>}
    ELSE IF c < 66208 THEN
        {<<65382, 65470>>, <<65474, 65479>>, <<65482, 65487>>,
          <<65490, 65495>>, <<65498, 65500>>, <<65536, 65547>>,
          <<65549, 65574>>, <<65576, 65594>>, <<65596, 65597>>,
          <<65599, 65613>>, <<65616, 65629>>, <<65664, 65786>>,
          <<65799, 65843>>, <<65856, 65912>>, <<65930, 65931>>,
          <<66176, 66204>>}
    ELSE IF c < 67392 THEN
        {<<66208, 66256>>, <<66273, 66299>>, <<66304, 66339>>,
          <<66349, 66378>>, <<66384, 66421>>, <<66432, 66461>>,
          <<66464, 66499>>, <<66504, 66511>>, <<66513, 66517>>,
          <<66560, 66717>>, <<66720, 66729>>, <<66736, 66771>>,
          <<66776, 66811>>, <<66816, 66855>>, <<66864, 66915>>,
          <<67072, 67382>>}
    ELSE IF c < 68028 THEN
        {<<67392, 67413>>, <<67424, 67431>>, <<67584, 67589>>,
          <<67592, 67592>>, <<67594, 67637>>, <<67639, 67640>>,
          <<67644, 67644>>, <<67647, 67669>>, <<67672, 67702>>,
          <<67705, 67742>>, <<67751, 67759>>, <<67808, 67826>>,
          <<67828, 67829>>, <<67835, 67867>>, <<67872, 67897>>,
          <<67968, 68023>>}
    ELSE IF c < 68608 THEN
        {<<68028, 68047>>, <<68050, 68096>>, <<68112, 68115>>,
          <<68117, 68119>>, <<68121, 68149>>, <<68160, 68168>>,
          <<68192, 68222>>, <<68224, 68255>>, <<68288, 68295>>,
          <<68297, 68324>>, <<68331, 68335>>, <<68352, 68405>>,
          <<68416, 68437>>, <<68440, 68466>>, <<68472, 68497>>,
          <<68521, 68527>>}
    ELSE IF c < 69840 THEN
        {<<68608, 68680>>, <<68736, 68786>>, <<68800, 68850>>,
          <<68858, 68899>>, <<68912, 68921>>, <<69216, 69246>>,
          <<69248, 69289>>, <<69296, 69297>>, <<69376, 69415>>,
          <<69424, 69445>>, <<69457, 69460>>, <<69552, 69579>>,
          <<69600, 69622>>, <<69635, 69687>>, <<69714, 69743>>,
          <<69763, 69807>>}
    ELSE IF c < 70280 THEN
        {<<69840, 69864>>, <<69872, 69881>>, <<69891, 69926>>,
          <<69942, 69951>>, <<69956, 69956>>, <<69959, 69959>>,
          <<69968, 70002>>, <<70006, 70006>>, <<70019, 70066>>,
          <<70081, 70084>>, <<70096, 70106>>, <<70108, 70108>>,
          <<70113, 70132>>, <<70144, 70161>>, <<70163, 70187>>,
          <<70272, 70278>>}
    ELSE IF c < 70727 THEN
        {<<70280, 70280>>, <<70282, 70285>>, <<70287, 70301>>,
          <<70303, 70312>>, <<70320, 70366>>, <<70384, 70393>>,
          <<70405, 70412>>, <<70415, 70416>>, <<70419, 70440>>,
          <<70442, 70448>>, <<70450, 70451>>, <<70453, 70457>>,
          <<70461, 70461>>, <<70480, 70480>>, <<70493, 70497>>,
          <<70656, 70708>>}
    ELSE IF c < 71472 THEN
        {<<70727, 70730>>, <<70736, 70745>>, <<70751, 70753>>,
          <<70784, 70831>>, <<70852, 70853>>, <<70855, 70855>>,
          <<70864, 70873>>, <<71040, 71086>>, <<71128, 71131>>,
          <<71168, 71215>>, <<71236, 71236>>, <<71248, 71257>>,
          <<71296, 71338>>, <<71352, 71352>>, <<71360, 71369>>,
          <<71424, 71450>>}
    ELSE IF c < 72203 THEN
        {<<71472, 71483>>, <<71680, 71723>>, <<71840, 71922>>,
          <<71935, 71942>>, <<71945, 71945>>, <<71948, 71955>>,
          <<71957, 71958>>, <<71960, 71983>>, <<71999, 71999>>,
          <<72001, 72001>>, <<72016, 72025>>, <<72096, 72103>>,
          <<72106, 72144>>, <<72161, 72161>>, <<72163, 72163>>,
          <<72192, 72192>>}
    ELSE IF c < 73056 THEN
        {<<72203, 72242>>, <<72250, 72250>>, <<72272, 72272>>,
          <<72284, 72329>>, <<72349, 72349>>, <<72384, 72440>>,
          <<72704, 72712>>, <<72714, 72750>>, <<72768, 72768>>,
          <<72784, 72812>>, <<72818, 72847>>, <<72960, 72966>>,
          <<72968, 72969>>, <<72971, 73008>>, <<73030, 73030>>,
          <<73040, 73049>>}
    ELSE IF c < 92880 THEN
        {<<73056, 73061>>, <<73063, 73064>>, <<73066, 73097>>,
          <<73112, 73112>>, <<73120, 73129>>, <<73440, 73458>>,
          <<73648, 73648>>, <<73664, 73684>>, <<73728, 74649>>,
          <<74752, 74862>>, <<74880, 75075>>, <<77824, 78894>>,
          <<82944, 83526>>, <<92160, 92728>>, <<92736, 92766>>,
          <<92768, 92777>>}
    ELSE IF c < 110592 THEN
        {<<92880, 92909>>, <<92928, 92975>>, <<92992, 92995>>,
          <<93008, 93017>>, <<93019, 93025>>, <<93027, 93047>>,
          <<93053, 93071>>, <<93760, 93846>>, <<93952, 94026>>,
          <<94032, 94032>>, <<94099, 94111>>, <<94176, 94177>>,
          <<94179, 94179>>, <<94208, 100343>>, <<100352, 101589>>,
          <<101632, 101640>>}
    ELSE IF c < 119982 THEN
        {<<110592, 110878>>, <<110928, 110930>>, <<110948, 110951>>,
          <<110960, 111355>>, <<113664, 113770>>, <<113776, 113788>>,
          <<113792, 113800>>, <<113808, 113817>>, <<119520, 119539>>,
          <<119648, 119672>>, <<119808, 119892>>, <<119894, 119964>>,
          <<119966, 119967>>, <<119970, 119970>>, <<119973, 119974>>,
          <<119977, 119980>>}
    ELSE IF c < 120572 THEN
        {<<119982, 119993>>, <<119995, 119995>>, <<119997, 120003>>,
          <<120005, 120069>>, <<120071, 120074>>, <<120077, 120084>>,
          <<120086, 120092>>, <<120094, 120121>>, <<120123, 120126>>,
          <<120128, 120132>>, <<120134, 120134>>, <<120138, 120144>>,
          <<120146, 120485>>, <<120488, 120512>>, <<120514, 120538>>,
          <<120540, 120570>>}
    ELSE IF c < 125127 THEN
        {<<120572, 120596>>, <<120598, 120628>>, <<120630, 120654>>,
          <<120656, 120686>>, <<120688, 120712>>, <<120714, 120744>>,
          <<120746, 120770>>, <<120772, 120779>>, <<120782, 120831>>,
          <<123136, 123180>>, <<123191, 123197>>, <<123200, 123209>>,
          <<123214, 123214>>, <<123584, 123627>>, <<123632, 123641>>,
          <<124928, 125124>>}
    ELSE IF c < 126521 THEN
        {<<125127, 125135>>, <<125184, 125251>>, <<125259, 125259>>,
          <<125264, 125273>>, <<126065, 126123>>, <<126125, 126127>>,
          <<126129, 126132>>, <<126209, 126253>>, <<126255, 126269>>,
          <<126464, 126467>>, <<126469, 126495>>, <<126497, 126498>>,
          <<126500, 126500>>, <<126503, 126503>>, <<126505, 126514>>,
          <<126516, 126519>>}
    ELSE IF c < 126567 THEN
        {<<126521, 126521>>, <<126523, 126523>>, <<126530, 126530>>,
          <<126535, 126535>>, <<126537, 126537>>, <<126539, 126539>>,
          <<126541, 126543>>, <<126545, 126546>>, <<126548, 126548>>,
          <<126551, 126551>>, <<126553, 126553>>, <<126555, 126555>>,
          <<126557, 126557>>, <<126559, 126559>>, <<126561, 126562>>,
          <<126564, 126564>>}
    ELSE IF c < 183984 THEN
        {<<126567, 126570>>, <<126572, 126578>>, <<126580, 126583>>,
          <<126585, 126588>>, <<126590, 126590>>, <<126592, 126601>>,
          <<126603, 126619>>, <<126625, 126627>>, <<126629, 126633>>,
          <<126635, 126651>>, <<127232, 127244>>, <<130032, 130041>>,
          <<131072, 173789>>, <<173824, 177972>>, <<177984, 178205>>,
          <<178208, 183969>>}
    ELSE
        {<<183984, 191456>>, <<194560, 195101>>, <<196608, 201546>>}

\* Whether one of the ranges holds c.
InRanges(c, ranges) == \E r \in ranges : r[1] <= c /\ c <= r[2]

\* [\-\+\*/%!~<>=&^|?:,]
OpChars == {45, 43, 42, 47, 37, 33, 126, 60, 62, 61, 38, 94, 124, 63, 58, 44}

\* [\(\)\[\]]
Brackets == {40, 41, 91, 93}

\* Membership of a character in one of the classes TOKEN_RE uses.
InClass(c, cls) ==
    CASE cls = "space" -> InRanges(c, SpaceRanges)
      [] cls = "digit" -> InRanges(c, DigitRanges(c))
      [] cls = "word" -> InRanges(c, WordRanges(c))
      [] cls = "op" -> c \in OpChars
      [] cls = "bracket" -> c \in Brackets

RECURSIVE RunEnd(_, _, _)
\* End of the maximal run of class cls that starts at p: p - 1 if the
\* character at p is not in cls.
RunEnd(s, p, cls) ==
    IF p <= Len(s) /\ InClass(s[p], cls) THEN RunEnd(s, p + 1, cls) ELSE p - 1

\* \s*: first position at or after p that holds no whitespace (Len(s)+1 if
\* none).
SkipSpace(s, p) == RunEnd(s, p, "space") + 1

\* The class of each alternative of TOKEN_RE, in the pattern's order.
GroupClass == <<"digit", "word", "op", "bracket">>

\* The least of a set of group numbers, 0 if there is none.
FirstOf(gs) == IF gs = {} THEN 0 ELSE CHOOSE g \in gs : \A h \in gs : g <= h

\* The first alternative that can begin with c, 0 if none can.
Alternative(c) == FirstOf({g \in 1..4 : InClass(c, GroupClass[g])})

\* The match of alternative g at q: \d+, \w+ and the operator class take the
\* maximal run, the bracket class one character.
Matched(s, q, g) ==
    [g |-> g, from |-> q,
     to |-> IF g \in 1..3 THEN RunEnd(s, q, GroupClass[g]) ELSE q]

\* The match attempt once the whitespace is skipped, q being where it ended.
MatchFrom(s, q) ==
    IF q > Len(s) THEN Matched(s, q, 0) ELSE Matched(s, q, Alternative(s[q]))

\* One match attempt of TOKEN_RE at position p: the group that matched (0 if
\* the pattern does not match at p) and the extent of the group's text.
MatchAt(s, p) == MatchFrom(s, SkipSpace(s, p))

\* The 4-tuple of groups findall reports for a match.
Item(s, m) == [i \in 1..4 |-> IF i = m.g THEN SubSeq(s, m.from, m.to) ELSE <<>>]

RECURSIVE ScanStops(_, _)
\* Scan, were a failed match attempt to end the scan.
ScanStops(s, p) ==
    IF p > Len(s) THEN <<>>
    ELSE LET m == MatchAt(s, p)
         IN  IF m.g = 0 THEN <<>>
             ELSE <<Item(s, m)>> \o ScanStops(s, m.to + 1)

RECURSIVE Scan(_, _)
RECURSIVE ScanOn(_, _, _)
\* findall's scan after the match attempt m at position p: a failed attempt
\* moves on by one character, a match is reported and the scan resumes after
\* it.
ScanOn(s, p, m) ==
    IF m.g = 0 THEN Scan(s, p + 1)
    ELSE <<Item(s, m)>> \o Scan(s, m.to + 1)

\* findall's scan from position p.
Scan(s, p) == IF p > Len(s) THEN <<>> ELSE ScanOn(s, p, MatchAt(s, p))

FindAll(s) == Scan(s, 1)

RECURSIVE Str(_)
\* The Python str spelled by a sequence of characters.
Str(cs) == IF cs = <<>> THEN "" ELSE Chr(Head(cs)) \o Str(Tail(cs))

\* The value int() gives a decimal digit: its place in its run 0..9.
DigitVal(c) ==
    LET r == CHOOSE r \in DigitRanges(c) : r[1] <= c /\ c <= r[2]
    IN  (c - r[1]) % 10

RECURSIVE IntOf(_)
\* int() of a run of decimal digits.
IntOf(cs) ==
    IF cs = <<>> THEN 0
    ELSE IntOf(SubSeq(cs, 1, Len(cs) - 1)) * 10 + DigitVal(cs[Len(cs)])

\* The token _make_stream builds from one findall item.
MakeToken(item) ==
    IF item[1] # <<>> THEN Token("number", IntOf(item[1]), <<0, 0>>)
    ELSE IF item[2] # <<>> THEN Token("name", Str(item[2]), <<0, 0>>)
    ELSE IF item[3] # <<>> THEN Token(Str(item[3]), Str(item[3]), <<0, 0>>)
    ELSE Token(Str(item[4]), Str(item[4]), <<0, 0>>)

\* The tokens of a text, in order.
Tokens(s) ==
    LET items == FindAll(s)
    IN  [i \in 1..Len(items) |-> MakeToken(items[i])]

(***************************************************************************)
(* TokenStream.  The generator _make_stream is kept as its list of items,  *)
(* the number gi of items it has taken, and the place gpc where it is      *)
(* suspended: "start" (not yet run), "loop" (at the yield inside the       *)
(* loop), "final" (at the yield after the loop) or "finished".             *)
(***************************************************************************)
NewStream(s) ==
    [s |-> s, current |-> ERROR_TOKEN, items |-> <<>>, gpc |-> "start", gi |-> 0]

\* StreamNext, were the generator to end without storing the eof sentinel.
StreamNextNoSentinel(ts) ==
    IF ts.gpc \in {"final", "finished"}
    THEN [ts |-> [ts EXCEPT !.gpc = "finished"], val |-> ERROR_TOKEN,
          exc |-> "StopIteration"]
    ELSE LET items == IF ts.gpc = "start" THEN FindAll(ts.s) ELSE ts.items
         IN  IF ts.gi < Len(items)
             THEN [ts |-> [ts EXCEPT !.items = items,
                                     !.current = MakeToken(items[ts.gi + 1]),
                                     !.gi = ts.gi + 1,
                                     !.gpc = "loop"],
                   val |-> ts.current, exc |-> "None"]
             ELSE [ts |-> [ts EXCEPT !.items = items, !.gpc = "final"],
                   val |-> ts.current, exc |-> "None"]

\* The generator resumed while it still has code to run, items being the
\* list findall returned: the next item becomes current, or the eof sentinel
\* once the items are used up; the previous current token is yielded.
Resume(ts, items) ==
    IF ts.gi < Len(items)
    THEN [ts |-> [ts EXCEPT !.items = items,
                            !.current = MakeToken(items[ts.gi + 1]),
                            !.gi = ts.gi + 1,
                            !.gpc = "loop"],
          val |-> ts.current, exc |-> "None"]
    ELSE [ts |-> [ts EXCEPT !.items = items,
                            !.current = EOF_TOKEN,
                            !.gpc = "final"],
          val |-> ts.current, exc |-> "None"]

\* next(token_stream): resume the generator once.  Yields the previous
\* current token, or raises StopIteration once the generator has run out.
StreamNext(ts) ==
    IF ts.gpc \in {"final", "finished"}
    THEN [ts |-> [ts EXCEPT !.gpc = "finished"], val |-> ERROR_TOKEN,
          exc |-> "StopIteration"]
    ELSE Resume(ts, IF ts.gpc = "start" THEN FindAll(ts.s) ELSE ts.items)

\* TokenStream(s): the dataclass constructor followed by __post_init__.
TokenStream(s) == StreamNext(NewStream(s)).ts

\* Eat, were the type compared even when token_type is empty.
EatAlwaysChecks(ts, token_type) ==
    IF ts.current.type # token_type
    THEN [ts |-> ts, exc |-> "ParseError",
          msg |-> "expected " \o token_type \o ", got " \o TokenRepr(ts.current)]
    ELSE LET n == StreamNext(ts)
         IN  [ts |-> n.ts, exc |-> n.exc, msg |-> ""]

\* eat(token_stream, token_type).
Eat(ts, token_type) ==
    IF token_type # "" /\ ts.current.type # token_type
    THEN [ts |-> ts, exc |-> "ParseError",
          msg |-> "expected " \o token_type \o ", got " \o TokenRepr(ts.current)]
    ELSE LET n == StreamNext(ts)
         IN  [ts |-> n.ts, exc |-> n.exc, msg |-> ""]

(***************************************************************************)
(* RuleMap.  A handler is named by the function registered: the two        *)
(* always-failing placeholders of tdop.py, or a handler of the grammar.    *)
(***************************************************************************)
\* d[k] = v on a dict.
Put(d, k, v) == [x \in DOMAIN d \cup {k} |-> IF x = k THEN v ELSE d[x]]

\* RuleMap(): both dicts empty.
EmptyRuleMap == [null |-> <<>>, left |-> <<>>]

RECURSIVE RegisterNullOverwrites(_, _, _, _)
\* RegisterNull, were the placeholder installed without looking at .left.
RegisterNullOverwrites(rm, bp, token_types, f) ==
    IF token_types = <<>> THEN rm
    ELSE LET t == Head(token_types)
         IN  RegisterNullOverwrites(
                 [null |-> Put(rm.null, t, <<f, bp>>),
                  left |-> Put(rm.left, t, <<"raise_left_error", 0, 0>>)],
                 bp, Tail(token_types), f)

RECURSIVE RegisterNull(_, _, _, _)
\* rule_map.register_null(bp, token_types)(f).
RegisterNull(rm, bp, token_types, f) ==
    IF token_types = <<>> THEN rm
    ELSE LET t == Head(token_types)
         IN  RegisterNull(
                 [null |-> Put(rm.null, t, <<f, bp>>),
                  left |-> IF t \in DOMAIN rm.left THEN rm.left
                           ELSE Put(rm.left, t, <<"raise_left_error", 0, 0>>)],
                 bp, Tail(token_types), f)

RECURSIVE RegisterLeftIgnoresFlag(_, _, _, _, _)
\* RegisterLeft, were rbp set to bp whatever the associativity flag.
RegisterLeftIgnoresFlag(rm, bp, token_types, is_left_right_assoc, f) ==
    IF token_types = <<>> THEN rm
    ELSE LET t == Head(token_types)
         IN  RegisterLeftIgnoresFlag(
                 [left |-> Put(rm.left, t, <<f, bp, bp>>),
                  null |-> IF t \in DOMAIN rm.null THEN rm.null
                           ELSE Put(rm.null, t, <<"raise_null_error", 0>>)],
                 bp, Tail(token_types), is_left_right_assoc, f)

RECURSIVE RegisterLeft(_, _, _, _, _)
\* rule_map.register_left(bp, token_types, is_left_right_assoc)(f).
RegisterLeft(rm, bp, token_types, is_left_right_assoc, f) ==
    IF token_types = <<>> THEN rm
    ELSE LET t == Head(token_types)
             lbp == bp
             rbp == IF is_left_right_assoc THEN bp - 1 ELSE bp
         IN  RegisterLeft(
                 [left |-> Put(rm.left, t, <<f, lbp, rbp>>),
                  null |-> IF t \in DOMAIN rm.null THEN rm.null
                           ELSE Put(rm.null, t, <<"raise_null_error", 0>>)],
                 bp, Tail(token_types), is_left_right_assoc, f)

(***************************************************************************)
(* Values the variables of one component hold while another is exercised.  *)
(***************************************************************************)
NoCall == [op |-> "init", arg |-> "", exc |-> "None", msg |-> "", val |-> ERROR_TOKEN]

Idle == [status |-> "idle", msg |-> "", node |-> [token |-> ERROR_TOKEN, children |-> <<>>]]

(***************************************************************************)
(* The token stream on its own: a caller that constructs TokenStream(s)    *)
(* for a text s and then calls next and eat on it in any order.            *)
(***************************************************************************)
TextsUpTo(A, n) == UNION {[1..k -> A] : k \in 0..n}

\* 1, ARABIC-INDIC DIGIT THREE, a, e with acute, +, (, space, form feed, {
TokAlphabet ==
    {49, 1635, 97, 233, 43, 40, 32, 12, 123}

EatTypes == {"", "number", "name", "+", "(", ":", "eof"}

InitTok ==
    /\ \E s \in TextsUpTo(TokAlphabet, MaxTextLen) : token_stream = TokenStream(s)
    /\ ret = NoCall
    /\ advances = 0
    /\ rule_map = EmptyRuleMap
    /\ null_registered = <<>>
    /\ left_registered = <<>>
    /\ stack = <<>>
    /\ result = Idle
    /\ top_rbp = 0

\* A caller's next(token_stream).
TokNext ==
    LET n == StreamNext(token_stream)
    IN  /\ token_stream' = n.ts
        /\ ret' = [op |-> "next", arg |-> "", exc |-> n.exc, msg |-> "", val |-> n.val]
        /\ advances' = IF n.exc = "None" THEN advances + 1 ELSE advances
        /\ UNCHANGED <<rule_map, null_registered, left_registered, stack, result, top_rbp>>

\* A caller's eat(token_stream, T).
TokEat(T) ==
    LET e == Eat(token_stream, T)
    IN  /\ token_stream' = e.ts
        /\ ret' = [op |-> "eat", arg |-> T, exc |-> e.exc, msg |-> e.msg, val |-> ERROR_TOKEN]
        /\ advances' = IF e.exc = "None" THEN advances + 1 ELSE advances
        /\ UNCHANGED <<rule_map, null_registered, left_registered, stack, result, top_rbp>>

NextTok ==
    \/ TokNext
    \/ \E T \in EatTypes : TokEat(T)

SpecTok == InitTok /\ [][NextTok]_vars

(***************************************************************************)
(* Properties of the token stream.                                         *)
(***************************************************************************)
\* What the stream shows after `advances` successful advances over toks.
CursorAt(toks, k) == IF k < Len(toks) THEN toks[k + 1] ELSE EOF_TOKEN

\* What a call of eat(token_stream, T) must do when the check applies and
\* fails: raise "expected T, got <current>" and leave the stream alone.
EatRejects(T) ==
    /\ ret'.exc = "ParseError"
    /\ ret'.msg = "expected " \o T \o ", got " \o TokenRepr(token_stream.current)
    /\ token_stream'.current = token_stream.current
    /\ token_stream'.gi = token_stream.gi
    /\ advances' = advances

\* ... and when it advances: exactly one token further, nothing raised.
EatAdvances ==
    /\ ret'.exc = "None"
    /\ advances' = advances + 1
    /\ token_stream'.current = CursorAt(Tokens(token_stream.s), advances + 1)

\* C7 as stated: for every expected type T, eat raises "expected T, got
\* <current token>" and leaves the stream un-advanced when current.type
\* differs from T, and advances by exactly one token, raising nothing, when
\* current.type equals T.
C7_EatOriginal ==
    [][\A T \in EatTypes :
          TokEat(T) => IF token_stream.current.type # T
                       THEN EatRejects(T)
                       ELSE EatAdvances]_vars

\* C7 amended: the check is made only for a non-empty T (the empty type
\* skips it and advances whatever the current token is), and the advance
\* that follows a passed or skipped check raises StopIteration, leaving
\* current the eof sentinel, when current already is the eof sentinel;
\* otherwise it moves exactly one token on and raises nothing.
C7_EatAmended ==
    [][\A T \in EatTypes :
          TokEat(T) => IF T # "" /\ token_stream.current.type # T
                       THEN EatRejects(T)
                       ELSE IF token_stream.current = EOF_TOKEN
                       THEN /\ ret'.exc = "StopIteration"
                            /\ token_stream'.current = EOF_TOKEN
                            /\ advances' = advances
                       ELSE EatAdvances]_vars

\* eat for the separator ":" at end of input, after two tokens were consumed.
C7_Witness ==
    /\ ret.op = "eat"
    /\ ret.arg = ":"
    /\ ret.exc = "ParseError"
    /\ ret.msg = "expected :, got <Token eof eof>"
    /\ advances = 2
    /\ token_stream.current = EOF_TOKEN

CursorInv ==
    LET toks == Tokens(token_stream.s)
    IN  /\ advances <= Len(toks)
        /\ token_stream.current # ERROR_TOKEN
        /\ token_stream.current = CursorAt(toks, advances)
        /\ (ret.op = "next" /\ ret.exc = "None") => ret.val = toks[advances]

\* C8: after construction current is t1 (eof when there are no tokens); the
\* k-th advance returns tk and leaves current at t(k+1), or at the eof
\* sentinel when k = n; current is always defined; and once current is the
\* eof sentinel it stays so: a further advance raises and changes nothing.
C8_Cursor ==
    /\ []CursorInv
    /\ [][token_stream.current = EOF_TOKEN =>
            /\ token_stream'.current = EOF_TOKEN
            /\ advances' = advances
            /\ ret'.exc # "None"
            /\ TokNext => ret'.exc = "StopIteration"]_vars

\* All three tokens of a text were advanced over and one more advance failed.
C8_Witness ==
    /\ Len(Tokens(token_stream.s)) = 3
    /\ advances = 3
    /\ ret.op = "next"
    /\ ret.exc = "StopIteration"
    /\ token_stream.current = EOF_TOKEN

\* A non-whitespace character of none of TOKEN_RE's classes.
Unrecognized(c) ==
    ~(InClass(c, "space") \/ InClass(c, "word") \/ InClass(c, "op") \/ InClass(c, "bracket"))

Before(s, i) == SubSeq(s, 1, i - 1)

After(s, i) == SubSeq(s, i + 1, Len(s))

\* C9 as stated: scanning stops at an unrecognized character, so the stream
\* holds the tokens of the text before it, then the eof sentinel, and no
\* token of the text after it.
C9_StopsOriginal ==
    \A i \in 1..Len(token_stream.s) :
        Unrecognized(token_stream.s[i]) =>
            /\ advances <= Len(Tokens(Before(token_stream.s, i)))
            /\ token_stream.current =
                   CursorAt(Tokens(Before(token_stream.s, i)), advances)

\* C9 amended: an unrecognized character is skipped and scanning goes on, so
\* the stream holds the tokens of the text before it, then the tokens of the
\* text after it, then the eof sentinel; the character itself gives no token.
C9_SkipsAmended ==
    \A i \in 1..Len(token_stream.s) :
        Unrecognized(token_stream.s[i]) =>
            LET toks == Tokens(Before(token_stream.s, i))
                            \o Tokens(After(token_stream.s, i))
            IN  /\ advances <= Len(toks)
                /\ token_stream.current = CursorAt(toks, advances)

\* The stream has moved past an unrecognized character and shows a token
\* taken from the text after it.
C9_Witness ==
    \E i \in 1..Len(token_stream.s) :
        /\ Unrecognized(token_stream.s[i])
        /\ Len(Tokens(Before(token_stream.s, i))) = 1
        /\ advances = 1
        /\ token_stream.current # EOF_TOKEN

(***************************************************************************)
(* The rule table on its own: a grammar definition that makes any sequence *)
(* of register_null and register_left calls on one RuleMap.                *)
(***************************************************************************)
RegTypes == {"number", "+"}

TypeLists == TextsUpTo(RegTypes, 2)

BPs == (-1)..MaxBP

Nuds == {"null_constant", "raise_null_error"}

Leds == {"left_binary_op"}

Range(seq) == {seq[i] : i \in 1..Len(seq)}

\* The record of calls: arg is what the last call gave for each listed type.
Noted(reg, token_types, arg) ==
    [t \in DOMAIN reg \cup Range(token_types) |->
        IF t \in Range(token_types) THEN arg ELSE reg[t]]

InitReg ==
    /\ rule_map = EmptyRuleMap
    /\ null_registered = <<>>
    /\ left_registered = <<>>
    /\ token_stream = NewStream(<<>>)
    /\ ret = NoCall
    /\ advances = 0
    /\ stack = <<>>
    /\ result = Idle
    /\ top_rbp = 0

CallRegisterNull(bp, token_types, f) ==
    /\ rule_map' = RegisterNull(rule_map, bp, token_types, f)
    /\ null_registered' = Noted(null_registered, token_types, <<f, bp>>)
    /\ UNCHANGED <<left_registered, token_stream, ret, advances, stack, result, top_rbp>>

CallRegisterLeft(bp, token_types, is_left_right_assoc, f) ==
    /\ rule_map' = RegisterLeft(rule_map, bp, token_types, is_left_right_assoc, f)
    /\ left_registered' =
           Noted(left_registered, token_types, <<f, bp, is_left_right_assoc>>)
    /\ UNCHANGED <<null_registered, token_stream, ret, advances, stack, result, top_rbp>>

NextReg ==
    \/ \E bp \in BPs, token_types \in TypeLists, f \in Nuds :
           CallRegisterNull(bp, token_types, f)
    \/ \E bp \in BPs, token_types \in TypeLists, flag \in BOOLEAN, f \in Leds :
           CallRegisterLeft(bp, token_types, flag, f)

SpecReg == InitReg /\ [][NextReg]_vars

\* C4: after any sequence of register_null and register_left calls the two
\* mappings have the same keys (every type registered through either call);
\* a type registered only through register_left has the failing prefix
\* handler at 0 in null, one registered only through register_null has the
\* failing infix handler at 0/0 in left; and a type registered through a call
\* keeps the handler and binding powers that call last gave it, whatever
\* calls of the other kind follow: no placeholder replaces it.
C4_Totality ==
    /\ DOMAIN rule_map.null = DOMAIN rule_map.left
    /\ DOMAIN rule_map.null = DOMAIN null_registered \cup DOMAIN left_registered
    /\ \A t \in DOMAIN left_registered \ DOMAIN null_registered :
           rule_map.null[t] = <<"raise_null_error", 0>>
    /\ \A t \in DOMAIN null_registered \ DOMAIN left_registered :
           rule_map.left[t] = <<"raise_left_error", 0, 0>>
    /\ \A t \in DOMAIN null_registered : rule_map.null[t] = null_registered[t]
    /\ \A t \in DOMAIN left_registered :
           LET a == left_registered[t]
           IN  rule_map.left[t] = <<a[1], a[2], IF a[3] THEN a[2] - 1 ELSE a[2]>>

\* "+" was registered as an infix operator and then as a prefix one, and
\* "number" only as a prefix one.
C4_Witness ==
    /\ DOMAIN left_registered = {"+"}
    /\ DOMAIN null_registered = {"+", "number"}
    /\ rule_map.left["+"][1] = "left_binary_op"
    /\ rule_map.null["+"][1] = "null_constant"
    /\ rule_map.left["number"][1] = "raise_left_error"

(***************************************************************************)
(* Node and its repr.                                                      *)
(***************************************************************************)
Node(token, children) == [token |-> token, children |-> children]

\* The value of a frame slot that holds no Node yet.
NoNode == Node(ERROR_TOKEN, <<>>)

RECURSIVE NodeRepr(_)
\* Node.__repr__: a leaf is its token's value, an interior node is
\* "(" type " " child ... ")".
NodeRepr(n) ==
    LET args[k \in 0..Len(n.children)] ==
            IF k = 0 THEN "" ELSE args[k - 1] \o " " \o NodeRepr(n.children[k])
    IN  IF n.children = <<>> THEN ValStr(n.token)
        ELSE "(" \o n.token.type \o args[Len(n.children)] \o ")"

(***************************************************************************)
(* parse.  The Python call stack is a sequence of frames, the running one  *)
(* last.  A frame holds the function, its binding-power argument, its left *)
(* operand or running node, the token it consumed, the value its callee    *)
(* returned, and where it stands: "start"; for parse, "nud" and "led"      *)
(* while the handler it called runs and "loop" at the head of the while    *)
(* loop; for a handler, "wait" while the parse it called runs and "resume" *)
(* once that has returned.                                                 *)
(***************************************************************************)
Frame(fn, rbp, node) ==
    [fn |-> fn, rbp |-> rbp, pc |-> "start", node |-> node,
     tok |-> ERROR_TOKEN, val |-> NoNode]

Top == stack[Len(stack)]

\* How far the generator has run: the number of tokens left behind.
Cursor(ts) == IF ts.gpc \in {"final", "finished"} THEN ts.gi + 1 ELSE ts.gi

\* The head of parse, lines 168-173: what to do with the first token.
StartDecision(rm, cur) ==
    IF cur.type = EOF_TOKEN.type
    THEN [act |-> "raise", msg |-> "Unexpected end of input"]
    ELSE IF cur.type \notin DOMAIN rm.null
    THEN [act |-> "raise", msg |-> "Unexpected token " \o TokenRepr(cur)]
    ELSE [act |-> "nud", nud |-> rm.null[cur.type][1], bp |-> rm.null[cur.type][2]]

\* LoopDecision, were the stopping test rbp > lbp.
LoopDecisionStrict(rm, cur, rbp) ==
    IF cur.type \notin DOMAIN rm.left
    THEN [act |-> "raise", msg |-> "Unexpected token " \o TokenRepr(cur)]
    ELSE LET e == rm.left[cur.type]
         IN  IF rbp > e[2] THEN [act |-> "break"]
             ELSE [act |-> "led", led |-> e[1], rbp |-> e[3]]

\* LoopDecision, were a token type without an infix entry to end the loop.
LoopDecisionMissingBreaks(rm, cur, rbp) ==
    IF cur.type \notin DOMAIN rm.left
    THEN [act |-> "break"]
    ELSE LET e == rm.left[cur.type]
         IN  IF rbp >= e[2] THEN [act |-> "break"]
             ELSE [act |-> "led", led |-> e[1], rbp |-> e[3]]

\* LoopDecision, were the stopping test to go round the loop again.
LoopDecisionContinues(rm, cur, rbp) ==
    IF cur.type \notin DOMAIN rm.left
    THEN [act |-> "raise", msg |-> "Unexpected token " \o TokenRepr(cur)]
    ELSE LET e == rm.left[cur.type]
         IN  IF rbp >= e[2] THEN [act |-> "continue"]
             ELSE [act |-> "led", led |-> e[1], rbp |-> e[3]]

\* One pass of the while loop, lines 177-187: raise, break, or call led.
LoopDecision(rm, cur, rbp) ==
    IF cur.type \notin DOMAIN rm.left
    THEN [act |-> "raise", msg |-> "Unexpected token " \o TokenRepr(cur)]
    ELSE LET e == rm.left[cur.type]
         IN  IF rbp >= e[2] THEN [act |-> "break"]
             ELSE [act |-> "led", led |-> e[1], rbp |-> e[3]]

\* An exception nobody catches: the whole stack unwinds.
Raise(exc, msg) ==
    /\ stack' = <<>>
    /\ result' = [status |-> exc, msg |-> msg, node |-> NoNode]

\* The running frame returns v to its caller: parse takes it as its running
\* node, a handler as the operand it was waiting for.
Return(v) ==
    IF Len(stack) = 1
    THEN /\ stack' = <<>>
         /\ result' = [status |-> "ok", msg |-> "", node |-> v]
    ELSE LET caller == stack[Len(stack) - 1]
             taken == IF caller.fn = "parse"
                      THEN [caller EXCEPT !.node = v, !.pc = "loop"]
                      ELSE [caller EXCEPT !.val = v, !.pc = "resume"]
         IN  /\ stack' = Append(SubSeq(stack, 1, Len(stack) - 2), taken)
             /\ UNCHANGED result

\* The running frame, now at pc, calls a function.
Call(pc, frame) ==
    /\ stack' = Append([stack EXCEPT ![Len(stack)].pc = pc], frame)
    /\ UNCHANGED result

Running(fn, pc) == stack # <<>> /\ Top.fn = fn /\ Top.pc = pc

Fixed == <<ret, advances, rule_map, null_registered, left_registered, top_rbp>>

\* parse, lines 168-174.
ParseStart ==
    /\ Running("parse", "start")
    /\ LET d == StartDecision(rule_map, token_stream.current)
       IN  IF d.act = "raise" THEN Raise("ParseError", d.msg)
           ELSE Call("nud", Frame(d.nud, d.bp, NoNode))
    /\ UNCHANGED <<token_stream, Fixed>>

\* parse, lines 176-189.
ParseLoop ==
    /\ Running("parse", "loop")
    /\ LET d == LoopDecision(rule_map, token_stream.current, Top.rbp)
       IN  CASE d.act = "raise" -> Raise("ParseError", d.msg)
             [] d.act = "break" -> Return(Top.node)
             [] d.act = "led" -> Call("led", Frame(d.led, d.rbp, Top.node))
             [] OTHER -> UNCHANGED <<stack, result>>
    /\ UNCHANGED <<token_stream, Fixed>>

RaiseNullError ==
    /\ Running("raise_null_error", "start")
    /\ Raise("ParseError",
             TokenRepr(token_stream.current) \o " can't be used in prefix position")
    /\ UNCHANGED <<token_stream, Fixed>>

RaiseLeftError ==
    /\ Running("raise_left_error", "start")
    /\ Raise("ParseError",
             TokenRepr(token_stream.current) \o " can't be used in infix position")
    /\ UNCHANGED <<token_stream, Fixed>>

(***************************************************************************)
(* The handlers of a grammar: a leaf, a parenthesised sub-expression and a *)
(* binary infix operator, as section 4.3 of the specification has them.    *)
(***************************************************************************)
\* return Node(next(token_stream), [])
NullConstant ==
    /\ Running("null_constant", "start")
    /\ LET n == StreamNext(token_stream)
       IN  /\ token_stream' = n.ts
           /\ IF n.exc # "None" THEN Raise(n.exc, "")
              ELSE Return(Node(n.val, <<>>))
    /\ UNCHANGED Fixed

\* next(token_stream); r = parse(rule_map, token_stream, bp)
NullParen ==
    /\ Running("null_paren", "start")
    /\ LET n == StreamNext(token_stream)
       IN  /\ token_stream' = n.ts
           /\ IF n.exc # "None" THEN Raise(n.exc, "")
              ELSE Call("wait", Frame("parse", Top.rbp, NoNode))
    /\ UNCHANGED Fixed

\* eat(token_stream, ")"); return r
NullParenClose ==
    /\ Running("null_paren", "resume")
    /\ LET e == Eat(token_stream, ")")
       IN  /\ token_stream' = e.ts
           /\ IF e.exc # "None" THEN Raise(e.exc, e.msg)
              ELSE Return(Top.val)
    /\ UNCHANGED Fixed

\* token = next(token_stream); right = parse(rule_map, token_stream, rbp)
LeftBinaryOp ==
    /\ Running("left_binary_op", "start")
    /\ LET n == StreamNext(token_stream)
       IN  /\ token_stream' = n.ts
           /\ IF n.exc # "None" THEN Raise(n.exc, "")
              ELSE /\ stack' = Append([stack EXCEPT ![Len(stack)].pc = "wait",
                                                    ![Len(stack)].tok = n.val],
                                      Frame("parse", Top.rbp, NoNode))
                   /\ UNCHANGED result
    /\ UNCHANGED Fixed

\* return Node(token, [left, right])
LeftBinaryOpBuild ==
    /\ Running("left_binary_op", "resume")
    /\ Return(Node(Top.tok, <<Top.node, Top.val>>))
    /\ UNCHANGED <<token_stream, Fixed>>

\* An arithmetic grammar: numbers are leaves, + and * are left-associative,
\* ** is right-associative when pow_right_assoc, ( opens a sub-expression,
\* ) and, when with_eof, the end of input have the failing prefix handler.
ArithRuleMap(pow_right_assoc, with_eof) ==
    LET r1 == RegisterLeft(EmptyRuleMap, 29, <<"**">>, pow_right_assoc, "left_binary_op")
        r2 == RegisterLeft(r1, 25, <<"*">>, FALSE, "left_binary_op")
        r3 == RegisterLeft(r2, 23, <<"+">>, FALSE, "left_binary_op")
        r4 == RegisterNull(r3, 0, <<"(">>, "null_paren")
        r5 == RegisterNull(r4, -1, <<"number">>, "null_constant")
    IN  RegisterNull(r5, -1, IF with_eof THEN <<")", "eof">> ELSE <<")">>,
                     "raise_null_error")

\* The grammars and top-level binding powers parse is run with.
Configs ==
    {<<TRUE, TRUE, 0>>, <<FALSE, TRUE, 0>>, <<TRUE, FALSE, 0>>,
     <<FALSE, FALSE, 0>>, <<TRUE, TRUE, -1>>}

Lexemes == {"n", "+", "*", "**", "(", ")"}

\* The characters of a lexeme, the number lexeme being spelled as the digit k.
LexemeText(lex, k) ==
    CASE lex = "n" -> <<48 + k>>
      [] lex = "+" -> <<43>>
      [] lex = "*" -> <<42>>
      [] lex = "**" -> <<42, 42>>
      [] lex = "(" -> <<40>>
      [] lex = ")" -> <<41>>

RECURSIVE SourceText(_, _)
\* The text that spells a list of lexemes, one space between two of them,
\* the k-th number of the list being the digit k.
SourceText(lexs, k) ==
    IF lexs = <<>> THEN <<>>
    ELSE LET w == LexemeText(Head(lexs), k)
             rest == SourceText(Tail(lexs), IF Head(lexs) = "n" THEN k + 1 ELSE k)
         IN  IF rest = <<>> THEN w ELSE w \o <<32>> \o rest

\* tdop.parse(rule_map, tdop.TokenStream(s), rbp), about to run.
InitParse ==
    /\ \E lexs \in TextsUpTo(Lexemes, MaxTokens) :
           token_stream = TokenStream(SourceText(lexs, 1))
    /\ \E c \in Configs :
           /\ rule_map = ArithRuleMap(c[1], c[2])
           /\ top_rbp = c[3]
           /\ stack = <<Frame("parse", c[3], NoNode)>>
    /\ result = [status |-> "running", msg |-> "", node |-> NoNode]
    /\ ret = NoCall
    /\ advances = 0
    /\ null_registered = <<>>
    /\ left_registered = <<>>

NextParse ==
    \/ ParseStart
    \/ ParseLoop
    \/ RaiseNullError
    \/ RaiseLeftError
    \/ NullConstant
    \/ NullParen
    \/ NullParenClose
    \/ LeftBinaryOp
    \/ LeftBinaryOpBuild

SpecParse == InitParse /\ [][NextParse]_vars

\* The interpreter runs the call to its end: no step is put off forever.
FairSpecParse == SpecParse /\ WF_vars(NextParse)

(***************************************************************************)
(* Properties of parse.                                                    *)
(***************************************************************************)
TextIs(lexs) == token_stream.s = SourceText(lexs, 1)

\* The top-level call has ended, one way or the other.
Finished == stack = <<>> /\ result.status # "running"

\* The step made the running parse call return v to whoever called it.
Returned(v) ==
    IF Len(stack) = 1
    THEN result'.status = "ok" /\ result'.node = v /\ stack' = <<>>
    ELSE /\ Len(stack') = Len(stack) - 1
         /\ stack'[Len(stack')].pc = "resume"
         /\ stack'[Len(stack')].val = v

\* The step made the running parse call invoke the infix handler of entry e
\* on its running node.
Invoked(e) ==
    /\ Len(stack') = Len(stack) + 1
    /\ stack'[Len(stack')].fn = e[1]
    /\ stack'[Len(stack')].rbp = e[3]
    /\ stack'[Len(stack')].node = Top.node
    /\ stack'[Len(stack)].pc = "led"

\* The two sums parse to the trees that precedence and left associativity
\* give them.
SumTrees ==
    /\ TextIs(<<"n", "+", "n", "*", "n">>) =>
           result.status = "ok" /\ NodeRepr(result.node) = "(+ 1 (* 2 3))"
    /\ TextIs(<<"n", "+", "n", "+", "n">>) =>
           result.status = "ok" /\ NodeRepr(result.node) = "(+ (+ 1 2) 3)"

\* The two sums fail at the end of the input.
SumsFailAtEof ==
    TextIs(<<"n", "+", "n", "*", "n">>) \/ TextIs(<<"n", "+", "n", "+", "n">>) =>
        /\ result.status = "ParseError"
        /\ result.msg = "Unexpected token " \o TokenRepr(EOF_TOKEN)

\* A step of the parse loop on an operator with an infix entry folds it into
\* the running left operand when its left binding power is greater than the
\* call's minimum binding power, and returns the left operand otherwise.
Folds ==
    ParseLoop /\ token_stream.current.type \in DOMAIN rule_map.left =>
        LET e == rule_map.left[token_stream.current.type]
        IN  IF e[2] > Top.rbp THEN Invoked(e) ELSE Returned(Top.node)

\* C1 as stated: with numbers as leaves and + and * left-associative, *
\* binding tighter, parse at 0 turns 1 + 2 * 3 into (+ 1 (* 2 3)) and
\* 1 + 2 + 3 into (+ (+ 1 2) 3); and in any parse call with minimum binding
\* power r the operator at current is folded into the running left operand
\* exactly when its left binding power is greater than r, the call returning
\* the left operand unchanged otherwise.
C1_PrecedenceOriginal ==
    /\ [](Finished /\ top_rbp = 0 => SumTrees)
    /\ [][Folds]_vars

\* C1 amended: the two trees are what parse at 0 returns when the table also
\* has an infix entry for eof (the placeholder that registering eof as a
\* prefix type installs); with no entry for eof both parses fail with
\* "Unexpected token <Token eof eof>".  The folding rule holds as stated.
C1_PrecedenceAmended ==
    /\ [](Finished /\ top_rbp = 0 =>
            IF "eof" \in DOMAIN rule_map.left THEN SumTrees ELSE SumsFailAtEof)
    /\ [][Folds]_vars

C1_Witness ==
    /\ TextIs(<<"n", "+", "n", "*", "n">>)
    /\ "eof" \in DOMAIN rule_map.left
    /\ top_rbp = 0
    /\ result.status = "ok"
    /\ NodeRepr(result.node) = "(+ 1 (* 2 3))"
    /\ token_stream.current = EOF_TOKEN

PowChainDone ==
    TextIs(<<"n", "**", "n", "**", "n">>) /\ top_rbp = 0 /\ Finished

\* What the finished parse of the chain 1 ** 2 ** 3 gave: the tree repr, or
\* the message of the parse error.
PowChainGives(status, text) ==
    PowChainDone =>
        /\ result.status = status
        /\ IF status = "ok" THEN NodeRepr(result.node) = text
                            ELSE result.msg = text

\* The rule table of the grammar, for each choice of the right-associative
\* flag of ** and of registering eof.
Grammars == [flag \in BOOLEAN, with_eof \in BOOLEAN |-> ArithRuleMap(flag, with_eof)]

\* C2 as stated: registered through register_left with the right-associative
\* flag, ** has left binding power bp and right binding power bp - 1, and the
\* chain 1 ** 2 ** 3 parses to the right-nested (** 1 (** 2 3)); registered
\* without the flag it has right binding power bp, and the chain parses to
\* the left-nested (** (** 1 2) 3).
C2_AssociativityOriginal ==
    \A with_eof \in BOOLEAN :
        /\ rule_map = Grammars[TRUE, with_eof] =>
               /\ rule_map.left["**"] = <<"left_binary_op", 29, 28>>
               /\ PowChainGives("ok", "(** 1 (** 2 3))")
        /\ rule_map = Grammars[FALSE, with_eof] =>
               /\ rule_map.left["**"] = <<"left_binary_op", 29, 29>>
               /\ PowChainGives("ok", "(** (** 1 2) 3)")

\* C2 amended: the binding powers are as stated, and the chain parses to the
\* stated tree when the table also has an infix entry for eof; with no entry
\* for eof the parse of the chain fails with "Unexpected token <Token eof
\* eof>".
C2_AssociativityAmended ==
    \A with_eof \in BOOLEAN :
        LET failed == "Unexpected token " \o TokenRepr(EOF_TOKEN)
        IN  /\ rule_map = Grammars[TRUE, with_eof] =>
                   /\ rule_map.left["**"] = <<"left_binary_op", 29, 28>>
                   /\ IF with_eof THEN PowChainGives("ok", "(** 1 (** 2 3))")
                                  ELSE PowChainGives("ParseError", failed)
            /\ rule_map = Grammars[FALSE, with_eof] =>
                   /\ rule_map.left["**"] = <<"left_binary_op", 29, 29>>
                   /\ IF with_eof THEN PowChainGives("ok", "(** (** 1 2) 3)")
                                  ELSE PowChainGives("ParseError", failed)

C2_Witness ==
    /\ PowChainDone
    /\ "eof" \in DOMAIN rule_map.left
    /\ rule_map.left["**"][3] = 28
    /\ NodeRepr(result.node) = "(** 1 (** 2 3))"

\* C3: whenever a top-level parse at minimum binding power 0 returns a Node,
\* current is the eof sentinel: no token is left unconsumed.
C3_TotalConsumption ==
    result.status = "ok" /\ top_rbp = 0 => token_stream.current = EOF_TOKEN

\* The outermost parse call stands at the head of its loop at end of input.
OutermostAtEof ==
    /\ Len(stack) = 1
    /\ Running("parse", "loop")
    /\ token_stream.current = EOF_TOKEN

\* C6 as stated: at end of input, with no entry for "eof" in the left
\* mapping, the outermost parse call returns its left operand.
C6_EofOriginal ==
    [][ParseLoop /\ OutermostAtEof /\ "eof" \notin DOMAIN rule_map.left =>
           result'.status = "ok" /\ result'.node = Top.node]_vars

\* C6 amended: at end of input the outermost parse call fails with
\* "Unexpected token <Token eof eof>" when "eof" has no entry in the left
\* mapping; it returns its left operand when "eof" has an entry whose left
\* binding power the call's minimum binding power reaches (as the entry
\* register_null installs for a grammar that registers eof, at rbp >= 0).
C6_EofAmended ==
    [][ParseLoop /\ OutermostAtEof =>
           IF "eof" \notin DOMAIN rule_map.left
           THEN /\ result'.status = "ParseError"
                /\ result'.msg = "Unexpected token <Token eof eof>"
           ELSE IF top_rbp >= rule_map.left["eof"][2]
           THEN result'.status = "ok" /\ result'.node = Top.node
           ELSE Invoked(rule_map.left["eof"])]_vars

\* 1 + 2 was parsed to its end by a grammar that registers nothing for eof.
C6_Witness ==
    /\ TextIs(<<"n", "+", "n">>)
    /\ "eof" \notin DOMAIN rule_map.left
    /\ result.status = "ParseError"
    /\ result.msg = "Unexpected token <Token eof eof>"

\* C10: raise_left_error is only ever invoked by a parse call whose minimum
\* binding power is negative; a parse call with rbp >= 0 that finds, after a
\* complete left operand, a token whose infix entry is the placeholder
\* returns the left operand; and a top-level call with rbp >= 0 never ends
\* in "can't be used in infix position".
C10_PlaceholderShadowed ==
    /\ [](\A i \in 1..Len(stack) :
            stack[i].fn = "raise_left_error" =>
                i > 1 /\ stack[i - 1].fn = "parse" /\ stack[i - 1].rbp < 0)
    /\ [][/\ ParseLoop
          /\ Top.rbp >= 0
          /\ token_stream.current.type \in DOMAIN rule_map.left
          /\ rule_map.left[token_stream.current.type][1] = "raise_left_error"
          => Returned(Top.node)]_vars
    /\ [](/\ result.status = "ParseError"
          /\ result.msg = TokenRepr(token_stream.current)
                              \o " can't be used in infix position"
          => top_rbp < 0)

\* 1 ) was parsed at 0: the call returned 1 with ) still current.
C10_Witness ==
    /\ TextIs(<<"n", ")">>)
    /\ top_rbp = 0
    /\ result.status = "ok"
    /\ NodeRepr(result.node) = "1"
    /\ token_stream.current.type = ")"
    /\ rule_map.left[")"] = <<"raise_left_error", 0, 0>>

\* C5: every call to parse finishes, the top-level call ending with a Node
\* or a parse error; the cursor never moves back, and an infix handler
\* moves it on by consuming its operator.
C5_Termination ==
    /\ <>(Finished /\ result.status \in {"ok", "ParseError"})
    /\ [][Cursor(token_stream') >= Cursor(token_stream)]_vars
    /\ [][LeftBinaryOp => Cursor(token_stream') > Cursor(token_stream)]_vars

\* ( 1 + 2 ) was parsed to its end through two nested parse calls.
C5_Witness ==
    /\ TextIs(<<"(", "n", "+", "n", ")">>)
    /\ Finished
    /\ result.status = "ok"
    /\ NodeRepr(result.node) = "(+ 1 2)"

====
